---- MODULE Spec2Model ----
(***************************************************************************)
(* A model of the tree-graph crate: the ASTGraph container (src/lib.rs),   *)
(* its value types (src/geometry.rs), subgraph extraction, the flat        *)
(* serializable record, and the petgraph traversals the container hands    *)
(* out.  Vertex and edge indices are 0-based as petgraph's NodeIndex is;   *)
(* TLA+ sequences are 1-based, so vertex i is graph.nodes[i + 1].          *)
(***************************************************************************)
EXTENDS Integers, Sequences, FiniteSets

VARIABLES tree,      \* the parsed tree handed to build_from_tree
          g,         \* the ASTGraph under construction / built
          pc,        \* "new" | "built" | "panicked"
          split,     \* None, or Some(kinds_to_split_on) of the last extract_subgraphs
          subs,      \* the Vec<ASTGraph> returned by the last extract_subgraphs
          ser,       \* None, or Some(SerializableGraph) from the last to_serializable
          serOf,     \* which container was serialized: 0 = g, k = subs[k]
          rt,        \* None, or Some(ASTGraph) returned by from_serializable
          it,        \* the live traversal iterator (Bfs / Dfs), or None
          path,      \* None, or Some(result of the last path_from_to call)
          named,     \* container |-> outcome of name() on it (None: it panicked)
          sliced,    \* None, or Some(the last get_node_source call and its outcome)
          record     \* None, or Some(the persisted flat record read by deserialize_from)

vars == <<tree, g, pc, split, subs, ser, serOf, rt, it, path, named, sliced, record>>

---------------------------------------------------------------------------
(* Bounds of the model *)

MaxNodes == 3        \* nodes of an input tree
MaxPad == 1          \* bytes of source text before the root node
IdBase == 100        \* parser ids are IdBase + (a per-node offset)
MaxGraphNodes == 3   \* vertices of a hand-built graph
MaxEdges == 3        \* edges of a hand-built graph
MaxRecordNodes == 2  \* vertex entries of a persisted record
MaxRecordEdges == 2  \* edge entries of a persisted record

\* the kind tags the tests split on
fortran_subroutine_kind == 229
fortran_program_kind == 212

Kinds == {fortran_program_kind, fortran_subroutine_kind}

---------------------------------------------------------------------------
(* Option<T>, HashMap and string slicing *)

None == <<>>
Some(x) == <<x>>
IsSome(o) == o # None
Unwrap(o) == o[1]

\* String::new(); a String is the sequence of its one-byte characters
EmptyString == <<>>

\* HashMap::new()
EmptyMap == <<>>

\* HashMap::insert(k, v): the entry for k is replaced or created
MapInsert(m, k, v) == [x \in (DOMAIN m) \cup {k} |-> IF x = k THEN v ELSE m[x]]

\* HashMap::get(k).cloned()
MapGet(m, k) == IF k \in DOMAIN m THEN Some(m[k]) ELSE None

\* a slice that starts one byte late
SliceOffByOne(s, a, b) == SubSeq(s, a + 2, b)

\* &s[a..b] on a String of one-byte characters: panics unless a <= b <= len
SliceOk(s, a, b) == a <= b /\ b <= Len(s)
Slice(s, a, b) == SubSeq(s, a + 1, b)

SetMin(S) == CHOOSE x \in S : \A y \in S : x <= y
SetMax(S) == CHOOSE x \in S : \A y \in S : x >= y

---------------------------------------------------------------------------
(* The parser's tree (tree_sitter::Tree): nodes are labelled 1..n, the     *)
(* root is 1, parent[i] < i, and the children of a node are ordered by     *)
(* label.  Labels are not the depth-first order.  Every leaf is a one-byte *)
(* token; an inner node spans its leaves; lead bytes of text (newlines)    *)
(* precede the root node.                                                  *)

ParentVectors(n) ==
    {p \in [1..n -> 0..(n - 1)] :
        /\ p[1] = 0
        /\ \A i \in 2..n : p[i] >= 1 /\ p[i] < i}

Trees ==
    UNION {{[n |-> n, parent |-> p, kind |-> k, lead |-> l] :
                p \in ParentVectors(n), k \in [1..n -> Kinds],
                l \in 0..MaxPad} : n \in 1..MaxNodes}

\* tree.root_node()
RootNode(t) == 1

ChildrenOf(t, x) == SelectSeq([i \in 1..t.n |-> i], LAMBDA i : t.parent[i] = x)

\* tree_node.child_count()
ChildCount(t, x) == Len(ChildrenOf(t, x))

\* tree_node.child(idx)
Child(t, x, idx) ==
    IF idx < ChildCount(t, x) THEN Some(ChildrenOf(t, x)[idx + 1]) ELSE None

\* tree_node.id(): distinct per node, unrelated to the visiting order
TsId(t, x) == IdBase + 7 * x

\* tree_node.kind_id()
TsKindId(t, x) == t.kind[x]

RECURSIVE InSubtree(_, _, _)
InSubtree(t, a, x) ==
    IF x = a THEN TRUE
    ELSE IF x = RootNode(t) THEN FALSE
    ELSE InSubtree(t, a, t.parent[x])

RECURSIVE Preorder(_, _), PreorderList(_, _)
Preorder(t, x) == <<x>> \o PreorderList(t, ChildrenOf(t, x))
PreorderList(t, xs) ==
    IF xs = <<>> THEN <<>>
    ELSE Preorder(t, Head(xs)) \o PreorderList(t, Tail(xs))

LeafSeq(t) == SelectSeq(Preorder(t, RootNode(t)), LAMBDA x : ChildCount(t, x) = 0)

LeafPos(t, l) == CHOOSE k \in 1..Len(LeafSeq(t)) : LeafSeq(t)[k] = l

LeavesUnder(t, x) ==
    {l \in 1..t.n : ChildCount(t, l) = 0 /\ InSubtree(t, x, l)}

Alphabet == <<"a", "b", "c", "d", "e", "f", "g", "h">>

\* the text the parser was given
SourceText(t) ==
    LET nl == Len(LeafSeq(t))
    IN  [b \in 1..(t.lead + nl) |->
            IF b <= t.lead THEN "\n" ELSE Alphabet[b - t.lead]]

\* tree_sitter::Point of a byte offset: zero-based row and column
TsPoint(src, byte) ==
    LET nls == {b \in 1..byte : src[b] = "\n"}
    IN  [row |-> Cardinality(nls), column |-> byte - SetMax({0} \cup nls)]

\* tree_node.range()
TsRange(t, x) ==
    LET sb == t.lead + SetMin({LeafPos(t, l) - 1 : l \in LeavesUnder(t, x)})
        eb == t.lead + SetMax({LeafPos(t, l) : l \in LeavesUnder(t, x)})
    IN  [start_byte |-> sb, end_byte |-> eb,
         start_point |-> TsPoint(SourceText(t), sb),
         end_point |-> TsPoint(SourceText(t), eb)]

---------------------------------------------------------------------------
(* geometry.rs *)

\* impl From<tree_sitter::Point> for GPoint
GPointFrom(point) == [row |-> point.row, column |-> point.column]

\* impl From<tree_sitter::Range> for GRange
GRangeFrom(value) ==
    [start_byte |-> value.start_byte,
     end_byte |-> value.end_byte,
     start_point |-> GPointFrom(value.start_point),
     end_point |-> GPointFrom(value.end_point)]

\* struct GNode
GNode(id, kind_id, range) == [id |-> id, kind_id |-> kind_id, range |-> range]

---------------------------------------------------------------------------
(* petgraph::graph::DiGraph<GNode, ()> *)

\* DiGraph::new()
DiGraphNew == [nodes |-> <<>>, edges |-> <<>>]

NodeCount(graph) == Len(graph.nodes)

\* graph.node_indices()
NodeIndices(graph) == [i \in 1..Len(graph.nodes) |-> i - 1]

NodeSet(graph) == 0..(Len(graph.nodes) - 1)

\* graph[node]
Weight(graph, node) == graph.nodes[node + 1]

\* Graph::add_node: the new vertex gets the next index
GraphAddNode(graph, weight) == [graph EXCEPT !.nodes = Append(@, weight)]

\* Graph::add_edge panics when an endpoint is not a vertex of the graph
GraphAddEdgeOk(graph, a, b) == a \in NodeSet(graph) /\ b \in NodeSet(graph)
GraphAddEdge(graph, a, b) == [graph EXCEPT !.edges = Append(@, <<a, b>>)]

RECURSIVE Reverse(_)
Reverse(s) == IF s = <<>> THEN <<>> ELSE Append(Reverse(Tail(s)), Head(s))

\* graph.neighbors(a): the targets of a's outgoing edges, latest edge first
Neighbors(graph, a) ==
    LET out == SelectSeq(graph.edges, LAMBDA e : e[1] = a)
    IN  Reverse([k \in 1..Len(out) |-> out[k][2]])

---------------------------------------------------------------------------
(* ASTGraph: construction *)

\* ASTGraph::new
New(source_code) ==
    [graph |-> DiGraphNew, node_map |-> EmptyMap, source |-> source_code, title |-> EmptyString]

\* ASTGraph::node_count
node_count(c) == Cardinality(DOMAIN c.node_map)

\* usize's Display, as format! uses it: the decimal digits, most significant first
DigitChars == <<"0", "1", "2", "3", "4", "5", "6", "7", "8", "9">>
RECURSIVE Decimal(_)
Decimal(n) ==
    IF n < 10 THEN <<DigitChars[n + 1]>>
    ELSE Decimal(n \div 10) \o <<DigitChars[(n % 10) + 1]>>

\* name taking the first vertex inserted as the root
name_first_vertex(c) ==
    LET root_node_id == MapGet(c.node_map, 0)
    IN  IF IsSome(root_node_id)
        THEN Some(<<"n", "o", "d", "e", "_">> \o Decimal(Unwrap(root_node_id))
                      \o <<"_", "g", "r", "a", "p", "h">>)
        ELSE None

\* ASTGraph::name: None when unwrap() panics
name(c) ==
    LET root_index == 1
        root_node_id == MapGet(c.node_map, root_index)
    IN  IF IsSome(root_node_id)
        THEN Some(<<"n", "o", "d", "e", "_">> \o Decimal(Unwrap(root_node_id))
                      \o <<"_", "g", "r", "a", "p", "h">>)
        ELSE None

\* add_node recording the kind tag in the back-reference map
add_node_maps_kind(c, t, tree_node) ==
    LET node_index == NodeCount(c.graph)
        new_node == GNode(TsId(t, tree_node), TsKindId(t, tree_node),
                          GRangeFrom(TsRange(t, tree_node)))
    IN  [c EXCEPT !.graph = GraphAddNode(@, new_node),
                  !.node_map = MapInsert(@, node_index, new_node.kind_id)]

\* ASTGraph::add_node
add_node(c, t, tree_node) ==
    LET id == TsId(t, tree_node)
        kind_id == TsKindId(t, tree_node)
        range == GRangeFrom(TsRange(t, tree_node))
        new_node == GNode(id, kind_id, range)
        node_index == NodeCount(c.graph)
    IN  [c EXCEPT !.graph = GraphAddNode(@, new_node),
                  !.node_map = MapInsert(@, node_index, id)]

\* ASTGraph::get_node
get_node(c, id) == MapGet(c.node_map, id)

\* add_edge with its endpoints exchanged
add_edge_reversed(c, parent, child) ==
    [c EXCEPT !.graph = GraphAddEdge(@, child, parent)]

\* ASTGraph::get_node_source: None when graph[id] or the slice panics
get_node_source(c, id) ==
    IF id \notin NodeSet(c.graph) THEN None
    ELSE LET graph_node == Weight(c.graph, id)
         IN  IF SliceOk(c.source, graph_node.range.start_byte, graph_node.range.end_byte)
             THEN Some(Slice(c.source, graph_node.range.start_byte,
                             graph_node.range.end_byte))
             ELSE None

\* ASTGraph::add_edge
add_edge(c, parent, child) == [c EXCEPT !.graph = GraphAddEdge(@, parent, child)]

\* ASTGraph::traverse_and_build
RECURSIVE traverse_and_build(_, _, _, _), TraverseChildren(_, _, _, _, _)
traverse_and_build(c, t, tree_node, parent) ==
    LET graph_node == NodeCount(c.graph)
        c1 == add_node(c, t, tree_node)
        c2 == IF IsSome(parent) THEN add_edge(c1, Unwrap(parent), graph_node) ELSE c1
    IN  TraverseChildren(c2, t, tree_node, graph_node, 0)
TraverseChildren(c, t, tree_node, graph_node, idx) ==
    IF idx >= ChildCount(t, tree_node) THEN c
    ELSE LET child == Child(t, tree_node, idx)
             c1 == IF IsSome(child)
                   THEN traverse_and_build(c, t, Unwrap(child), Some(graph_node))
                   ELSE c
         IN  TraverseChildren(c1, t, tree_node, graph_node, idx + 1)

\* ASTGraph::build_from_tree
build_from_tree(c, t) == traverse_and_build(c, t, RootNode(t), None)

---------------------------------------------------------------------------
(* petgraph::visit::Bfs and Dfs.  A walker holds only its queue / stack    *)
(* and its discovered set; the graph is passed to every call of next.      *)

\* Bfs::new(graph, start)
BfsNew(graph, start) == [stack |-> <<start>>, discovered |-> {start}]

\* the body of Bfs::next's loop over graph.neighbors(node)
RECURSIVE BfsPushSuccs(_, _)
BfsPushSuccs(w, succs) ==
    IF succs = <<>> THEN w
    ELSE LET succ == Head(succs)
         IN  IF succ \notin w.discovered
             THEN BfsPushSuccs([w EXCEPT !.discovered = @ \cup {succ},
                                         !.stack = Append(@, succ)], Tail(succs))
             ELSE BfsPushSuccs(w, Tail(succs))

\* Bfs::next(graph): the walker afterwards and the item returned
BfsNext(graph, w) ==
    IF w.stack = <<>> THEN [w |-> w, item |-> None]
    ELSE LET node == Head(w.stack)
             w1 == [w EXCEPT !.stack = Tail(@)]
         IN  [w |-> BfsPushSuccs(w1, Neighbors(graph, node)), item |-> Some(node)]

\* Dfs::new(graph, start): only the start is pushed; nothing is discovered yet
DfsNew(graph, start) == [stack |-> <<start>>, discovered |-> {}]

\* the body of Dfs::next's loop over graph.neighbors(node)
RECURSIVE DfsPushSuccs(_, _)
DfsPushSuccs(w, succs) ==
    IF succs = <<>> THEN w
    ELSE LET succ == Head(succs)
         IN  IF succ \notin w.discovered
             THEN DfsPushSuccs([w EXCEPT !.stack = Append(@, succ)], Tail(succs))
             ELSE DfsPushSuccs(w, Tail(succs))

\* Dfs::next(graph): pops until an undiscovered vertex is found
RECURSIVE DfsNext(_, _)
DfsNext(graph, w) ==
    IF w.stack = <<>> THEN [w |-> w, item |-> None]
    ELSE LET node == w.stack[Len(w.stack)]
             w1 == [w EXCEPT !.stack = SubSeq(@, 1, Len(@) - 1)]
         IN  IF node \notin w1.discovered
             THEN LET w2 == [w1 EXCEPT !.discovered = @ \cup {node}]
                  IN  [w |-> DfsPushSuccs(w2, Neighbors(graph, node)),
                       item |-> Some(node)]
             ELSE DfsNext(graph, w1)

\* petgraph::visit::Reversed(&graph): every edge seen from target to source
Reversed(graph) ==
    [graph EXCEPT !.edges = [k \in 1..Len(graph.edges) |->
                                <<graph.edges[k][2], graph.edges[k][1]>>]]

---------------------------------------------------------------------------
(* ASTGraph: subgraph extraction *)

\* a collection that stops at the start vertex's direct successors
collect_subgraph_nodes_shallow(c, start_node) ==
    {start_node} \cup {e[2] : e \in {x \in {c.graph.edges[k] : k \in 1..Len(c.graph.edges)} :
                                        x[1] = start_node}}

\* ASTGraph::collect_subgraph_nodes
RECURSIVE CollectLoop(_, _, _)
CollectLoop(graph, bfs, visited) ==
    LET r == BfsNext(graph, bfs)
    IN  IF IsSome(r.item)
        THEN CollectLoop(graph, r.w, visited \cup {Unwrap(r.item)})
        ELSE visited
\* a collection that leaves out the other vertices of the start vertex's kind
collect_subgraph_nodes_outer_only(c, start_node) ==
    {v \in CollectLoop(c.graph, BfsNew(c.graph, start_node), {}) :
        v = start_node \/ Weight(c.graph, v).kind_id # Weight(c.graph, start_node).kind_id}
collect_subgraph_nodes(c, start_node) ==
    CollectLoop(c.graph, BfsNew(c.graph, start_node), {})

\* the orders in which a HashSet's elements can come out of its iterator
RECURSIVE IterationOrders(_)
IterationOrders(S) ==
    IF S = {} THEN {<<>>}
    ELSE UNION {{<<x>> \o o : o \in IterationOrders(S \ {x})} : x \in S}

\* create_subgraph, first loop: one fresh vertex per member, in iteration order
RECURSIVE SubgraphNodesLoop(_, _, _)
SubgraphNodesLoop(c, order, acc) ==
    IF order = <<>> THEN acc
    ELSE LET node == Head(order)
             new_node == NodeCount(acc.digraph)
             original_id == Weight(c.graph, node).id
         IN  SubgraphNodesLoop(c, Tail(order),
                [digraph |-> GraphAddNode(acc.digraph, Weight(c.graph, node)),
                 node_map |-> MapInsert(acc.node_map, node, new_node),
                 original_mapping |-> MapInsert(acc.original_mapping, new_node, original_id)])

\* create_subgraph, second loop: the edges with both endpoints in the set
RECURSIVE SubgraphEdgesLoop(_, _, _, _)
SubgraphEdgesLoop(edges, subgraph_nodes, node_map, digraph) ==
    IF edges = <<>> THEN digraph
    ELSE LET source == Head(edges)[1]
             target == Head(edges)[2]
         IN  IF source \in subgraph_nodes /\ target \in subgraph_nodes
             THEN SubgraphEdgesLoop(Tail(edges), subgraph_nodes, node_map,
                        GraphAddEdge(digraph, node_map[source], node_map[target]))
             ELSE SubgraphEdgesLoop(Tail(edges), subgraph_nodes, node_map, digraph)

\* create_subgraph adding each edge between the original indices
create_subgraph_unmapped(c, subgraph_nodes, order) ==
    LET acc == SubgraphNodesLoop(c, order,
                   [digraph |-> DiGraphNew, node_map |-> EmptyMap,
                    original_mapping |-> EmptyMap])
        digraph == SubgraphEdgesLoop(c.graph.edges, subgraph_nodes,
                                     [n \in subgraph_nodes |-> n], acc.digraph)
    IN  [graph |-> digraph, node_map |-> acc.original_mapping,
         source |-> EmptyString, title |-> EmptyString]

\* ASTGraph::create_subgraph; order is how the HashSet iterated
create_subgraph(c, subgraph_nodes, order) ==
    LET acc == SubgraphNodesLoop(c, order,
                   [digraph |-> DiGraphNew, node_map |-> EmptyMap,
                    original_mapping |-> EmptyMap])
        digraph == SubgraphEdgesLoop(c.graph.edges, subgraph_nodes, acc.node_map,
                                     acc.digraph)
    IN  [graph |-> digraph, node_map |-> acc.original_mapping,
         source |-> EmptyString, title |-> EmptyString]

\* the vertices extract_subgraphs matches, in index order
MatchingNodes(c, kinds_to_split_on) ==
    SelectSeq(NodeIndices(c.graph),
              LAMBDA node : Weight(c.graph, node).kind_id \in kinds_to_split_on)

\* for every matching vertex, an iteration order of its collected set
RECURSIVE HashOrdersFor(_, _)
HashOrdersFor(c, matches) ==
    IF matches = <<>> THEN {EmptyMap}
    ELSE LET node == Head(matches)
         IN  {MapInsert(rest, node, o) :
                 rest \in HashOrdersFor(c, Tail(matches)),
                 o \in IterationOrders(collect_subgraph_nodes(c, node))}
HashOrders(c, kinds_to_split_on) == HashOrdersFor(c, MatchingNodes(c, kinds_to_split_on))

\* ASTGraph::extract_subgraphs: None when a source slice panics
RECURSIVE ExtractLoop(_, _, _, _, _)
ExtractLoop(c, kinds_to_split_on, orders, node, subgraphs) ==
    IF node >= NodeCount(c.graph) THEN Some(subgraphs)
    ELSE IF Weight(c.graph, node).kind_id \in kinds_to_split_on
    THEN LET node_range == Weight(c.graph, node).range
         IN  IF ~SliceOk(c.source, node_range.start_byte, node_range.end_byte)
             THEN None
             ELSE LET split_source == Slice(c.source, node_range.start_byte,
                                            node_range.end_byte)
                      subgraph_nodes == collect_subgraph_nodes(c, node)
                      subgraph == create_subgraph(c, subgraph_nodes, orders[node])
                  IN  ExtractLoop(c, kinds_to_split_on, orders, node + 1,
                          Append(subgraphs, [subgraph EXCEPT !.source = split_source]))
    ELSE ExtractLoop(c, kinds_to_split_on, orders, node + 1, subgraphs)
\* an extraction that hands every subgraph the whole source text
extract_subgraphs_whole_source(c, kinds_to_split_on, orders) ==
    LET r == ExtractLoop(c, kinds_to_split_on, orders, 0, <<>>)
    IN  IF IsSome(r)
        THEN Some([k \in 1..Len(Unwrap(r)) |-> [Unwrap(r)[k] EXCEPT !.source = c.source]])
        ELSE None
\* an extraction whose loop starts at the second vertex
extract_subgraphs_skip_first(c, kinds_to_split_on, orders) ==
    ExtractLoop(c, kinds_to_split_on, orders, 1, <<>>)
extract_subgraphs(c, kinds_to_split_on, orders) ==
    ExtractLoop(c, kinds_to_split_on, orders, 0, <<>>)

---------------------------------------------------------------------------
(* ASTGraph: the flat record *)

\* to_serializable writing each edge's target as its source
to_serializable_swapped(c) ==
    [nodes |-> [k \in 1..Len(c.graph.nodes) |-> Weight(c.graph, NodeIndices(c.graph)[k])],
     edges |-> [e \in 1..Len(c.graph.edges) |->
                   [source |-> c.graph.edges[e][2], target |-> c.graph.edges[e][1]]]]

\* ASTGraph::to_serializable
to_serializable(c) ==
    [nodes |-> [k \in 1..Len(c.graph.nodes) |-> Weight(c.graph, NodeIndices(c.graph)[k])],
     edges |-> [e \in 1..Len(c.graph.edges) |->
                   [source |-> c.graph.edges[e][1], target |-> c.graph.edges[e][2]]]]

\* A usize of the persisted record (64 bits wide on the targets where the
\* record can hold a position of 2^32 or more) as its high and low 32-bit
\* halves: the position is hi * 2^32 + lo.
Usize(hi, lo) == [hi |-> hi, lo |-> lo]

\* petgraph's NodeIndex::new(x) for the default u32 index: x as u32
NodeIndexNew(x) == x.lo

\* geometry.rs, deserialize_node_index
deserialize_node_index(d) ==
    LET index == d
    IN  NodeIndexNew(index)

\* deserialize_from(file): the SerializableGraph a persisted record decodes to
deserialize_from(file) ==
    [nodes |-> file.nodes,
     edges |-> [k \in 1..Len(file.edges) |->
                   [source |-> deserialize_node_index(file.edges[k].source),
                    target |-> deserialize_node_index(file.edges[k].target)]]]

\* from_serializable, first loop
RECURSIVE FromNodesLoop(_, _)
FromNodesLoop(nodes, acc) ==
    IF nodes = <<>> THEN acc
    ELSE LET serialized_node == Head(nodes)
             node_index == NodeCount(acc.graph)
         IN  FromNodesLoop(Tail(nodes),
                [graph |-> GraphAddNode(acc.graph, serialized_node),
                 node_map |-> MapInsert(acc.node_map, node_index, serialized_node.id)])

\* from_serializable, second loop: None when Graph::add_edge panics
RECURSIVE FromEdgesLoop(_, _)
FromEdgesLoop(edges, graph) ==
    IF edges = <<>> THEN Some(graph)
    ELSE LET serialized_edge == Head(edges)
         IN  IF GraphAddEdgeOk(graph, serialized_edge.source, serialized_edge.target)
             THEN FromEdgesLoop(Tail(edges),
                      GraphAddEdge(graph, serialized_edge.source, serialized_edge.target))
             ELSE None

\* ASTGraph::from_serializable: None when it panics
from_serializable(serializable_graph) ==
    LET acc == FromNodesLoop(serializable_graph.nodes,
                             [graph |-> DiGraphNew, node_map |-> EmptyMap])
        graph == FromEdgesLoop(serializable_graph.edges, acc.graph)
    IN  IF IsSome(graph)
        THEN Some([graph |-> Unwrap(graph), node_map |-> acc.node_map,
                   source |-> EmptyString, title |-> EmptyString])
        ELSE None

---------------------------------------------------------------------------
(* ASTGraph: iterators and path finding *)

\* a breadth-first walker whose start is not marked discovered
bfs_iterator_undiscovered(c, start_node) ==
    [stack |-> <<start_node>>, discovered |-> {}]

\* ASTGraph::bfs_iterator
bfs_iterator(c, start_node) == BfsNew(c.graph, start_node)

\* ASTGraph::dfs_iterator
dfs_iterator(c, start_node) == DfsNew(c.graph, start_node)

\* ASTGraph::reversed_dfs_iterator: the walker is made from the reversed view,
\* which is dropped when the function returns
reversed_dfs_iterator(c, start_node) ==
    LET reversed_graph == Reversed(c.graph)
    IN  DfsNew(reversed_graph, start_node)

\* graph.edges(a): a's outgoing edges, latest edge first
EdgesFrom(graph, a) == Reverse(SelectSeq(graph.edges, LAMBDA e : e[1] = a))

\* PathTracker::reconstruct_path_to: follow came_from back from last, then reverse
RECURSIVE PathBack(_, _)
PathBack(came_from, current) ==
    IF current \in DOMAIN came_from
    THEN <<current>> \o PathBack(came_from, came_from[current])
    ELSE <<current>>
ReconstructPathTo(came_from, last) == Reverse(PathBack(came_from, last))

\* astar's loop over graph.edges(node), with edge cost 1 and estimate 0
RECURSIVE AstarRelax(_, _, _, _)
AstarRelax(st, edges, node, node_score) ==
    IF edges = <<>> THEN st
    ELSE LET next == Head(edges)[2]
             next_score == node_score + 1
         IN  IF next \in DOMAIN st.scores /\ st.scores[next] <= next_score
             THEN AstarRelax(st, Tail(edges), node, node_score)
             ELSE AstarRelax(
                    [st EXCEPT !.scores = MapInsert(@, next, next_score),
                               !.came_from = MapInsert(@, next, node),
                               !.visit_next = @ \cup {<<next_score + 0, next>>}],
                    Tail(edges), node, node_score)

\* petgraph::algo::astar: the results it can return.  visit_next is a BinaryHeap
\* of MinScored entries ordered by score alone; which of several entries of the
\* least score is popped first is left to the heap.
RECURSIVE AstarLoop(_, _, _)
AstarLoop(graph, goal, st) ==
    IF st.visit_next = {} THEN {None}
    ELSE LET least == SetMin({e[1] : e \in st.visit_next})
         IN  UNION {
               LET estimate_score == e[1]
                   node == e[2]
                   st1 == [st EXCEPT !.visit_next = @ \ {e}]
               IN  IF node = goal
                   THEN {Some(<<st.scores[node], ReconstructPathTo(st.came_from, node)>>)}
                   ELSE IF /\ node \in DOMAIN st1.estimate_scores
                           /\ st1.estimate_scores[node] <= estimate_score
                   THEN AstarLoop(graph, goal, st1)
                   ELSE AstarLoop(graph, goal,
                          AstarRelax([st1 EXCEPT !.estimate_scores =
                                                   MapInsert(@, node, estimate_score)],
                                     EdgesFrom(graph, node), node, st1.scores[node]))
               : e \in {x \in st.visit_next : x[1] = least}}
Astar(graph, start, goal) ==
    AstarLoop(graph, goal,
              [visit_next |-> {<<0, start>>}, scores |-> MapInsert(EmptyMap, start, 0),
               estimate_scores |-> EmptyMap, came_from |-> EmptyMap])

\* path_from_to whose goal test compares with the start vertex
path_from_to_goal_is_start(c, start_node, goal) ==
    {IF IsSome(result) THEN Some(Unwrap(result)[2]) ELSE None :
        result \in Astar(c.graph, start_node, start_node)}

\* ASTGraph::path_from_to: the results it can return
path_from_to(c, start_node, goal) ==
    {IF IsSome(result) THEN Some(Unwrap(result)[2]) ELSE None :
        result \in Astar(c.graph, start_node, goal)}

---------------------------------------------------------------------------
(* The tree workflow: new, build_from_tree, then read-only use *)

Init ==
    /\ tree \in Trees
    /\ g = New(SourceText(tree))
    /\ pc = "new"
    /\ split = None
    /\ subs = <<>>
    /\ ser = None
    /\ serOf = 0
    /\ rt = None
    /\ it = None
    /\ path = None
    /\ named = EmptyMap
    /\ sliced = None
    /\ record = None

Build ==
    /\ pc = "new"
    /\ g' = build_from_tree(g, tree)
    /\ pc' = "built"
    /\ UNCHANGED <<tree, split, subs, ser, serOf, rt, it, path, named, sliced, record>>

\* extract_subgraphs borrows g immutably and its result depends on g and its
\* argument alone, so one call per behaviour reaches every result
ExtractSubgraphs ==
    /\ pc = "built"
    /\ split = None
    /\ \E kinds_to_split_on \in SUBSET Kinds :
       \E orders \in HashOrders(g, kinds_to_split_on) :
          LET r == extract_subgraphs(g, kinds_to_split_on, orders)
          IN  IF IsSome(r)
              THEN /\ subs' = Unwrap(r)
                   /\ split' = Some(kinds_to_split_on)
                   /\ pc' = pc
              ELSE /\ pc' = "panicked"
                   /\ UNCHANGED <<subs, split>>
    /\ ser' = None
    /\ serOf' = 0
    /\ rt' = None
    /\ UNCHANGED <<tree, g, it, path, named, sliced, record>>

\* the container a caller holds: 0 is g, k is the k-th extracted subgraph
Container(k) == IF k = 0 THEN g ELSE subs[k]

ToSerializable ==
    /\ pc = "built"
    /\ ser = None
    /\ \E k \in 0..Len(subs) :
          /\ ser' = Some(to_serializable(Container(k)))
          /\ serOf' = k
    /\ rt' = None
    /\ UNCHANGED <<tree, g, pc, split, subs, it, path, named, sliced, record>>

\* an associated function: it needs a record, not a built graph
FromSerializable ==
    /\ pc # "panicked"
    /\ IsSome(ser)
    /\ rt = None
    /\ LET r == from_serializable(Unwrap(ser))
       IN  IF IsSome(r)
           THEN rt' = r /\ pc' = pc
           ELSE rt' = rt /\ pc' = "panicked"
    /\ UNCHANGED <<tree, g, split, subs, ser, serOf, it, path, named, sliced, record>>

Next ==
    \/ Build
    \/ ExtractSubgraphs
    \/ ToSerializable
    \/ FromSerializable

Spec == Init /\ [][Next]_vars

---------------------------------------------------------------------------
(* The tree workflow with the calls that can panic: name() on the          *)
(* container and on the extracted subgraphs, in any order, or one           *)
(* get_node_source() on one of them.  A panic ends the run.                 *)

Name ==
    /\ pc \in {"new", "built"}
    /\ sliced = None
    /\ \E k \in (0..Len(subs)) \ DOMAIN named :
          LET r == name(Container(k))
          IN  /\ named' = MapInsert(named, k, r)
              /\ pc' = IF IsSome(r) THEN pc ELSE "panicked"
    /\ UNCHANGED <<tree, g, split, subs, ser, serOf, rt, it, path, sliced, record>>

\* the index is that of a vertex, or the first index past the last vertex
GetNodeSource ==
    /\ pc \in {"new", "built"}
    /\ sliced = None
    /\ named = EmptyMap
    /\ \E k \in 0..Len(subs) :
       \E id \in 0..NodeCount(Container(k).graph) :
          LET r == get_node_source(Container(k), id)
          IN  /\ sliced' = Some([of |-> k, id |-> id, result |-> r])
              /\ pc' = IF IsSome(r) THEN pc ELSE "panicked"
    /\ UNCHANGED <<tree, g, split, subs, ser, serOf, rt, it, path, named, record>>

CallsNext ==
    \/ Build
    \/ ExtractSubgraphs
    \/ Name
    \/ GetNodeSource

SpecCalls == Init /\ [][CallsNext]_vars

---------------------------------------------------------------------------
(* The hand-built workflow: new, then add_node / add_edge in any            *)
(* combination, with traversals and path queries on the graph so far.       *)

\* the tree whose nodes are handed to add_node, in label order
HandTrees ==
    {t \in Trees : /\ t.n = MaxGraphNodes
                   /\ t.lead = 0
                   /\ \A i \in 2..t.n : t.parent[i] = 1
                   /\ \A i \in 1..t.n : t.kind[i] = fortran_program_kind}

GraphInit ==
    /\ tree \in HandTrees
    /\ g = New(SourceText(tree))
    /\ pc = "new"
    /\ split = None
    /\ subs = <<>>
    /\ ser = None
    /\ serOf = 0
    /\ rt = None
    /\ it = None
    /\ path = None
    /\ named = EmptyMap
    /\ sliced = None
    /\ record = None

\* A walker or a path result is a value its caller holds and drops. The graph
\* is changed, and a walker or a path is asked for, in the states that hold
\* neither: every graph is reached there, so every walker and path is too.
AddNode ==
    /\ pc = "new"
    /\ it = None
    /\ path = None
    /\ NodeCount(g.graph) < MaxGraphNodes
    /\ g' = add_node(g, tree, NodeCount(g.graph) + 1)
    /\ it' = None
    /\ path' = None
    /\ UNCHANGED <<tree, pc, split, subs, ser, serOf, rt, named, sliced, record>>

AddEdge ==
    /\ pc = "new"
    /\ it = None
    /\ path = None
    /\ Len(g.graph.edges) < MaxEdges
    /\ \E parent \in 0..(MaxGraphNodes - 1), child \in 0..(MaxGraphNodes - 1) :
          IF GraphAddEdgeOk(g.graph, parent, child)
          THEN g' = add_edge(g, parent, child) /\ pc' = pc
          ELSE g' = g /\ pc' = "panicked"
    /\ it' = None
    /\ path' = None
    /\ UNCHANGED <<tree, split, subs, ser, serOf, rt, named, sliced, record>>

Walker(kind, start, w) ==
    Some([kind |-> kind, start |-> start, w |-> w, out |-> <<>>, done |-> FALSE])

BfsIterator ==
    /\ pc = "new"
    /\ it = None
    /\ path = None
    /\ \E start_node \in NodeSet(g.graph) :
          it' = Walker("bfs", start_node, bfs_iterator(g, start_node))
    /\ path' = None
    /\ UNCHANGED <<tree, g, pc, split, subs, ser, serOf, rt, named, sliced, record>>

DfsIterator ==
    /\ pc = "new"
    /\ it = None
    /\ path = None
    /\ \E start_node \in NodeSet(g.graph) :
          it' = Walker("dfs", start_node, dfs_iterator(g, start_node))
    /\ path' = None
    /\ UNCHANGED <<tree, g, pc, split, subs, ser, serOf, rt, named, sliced, record>>

ReversedDfsIterator ==
    /\ pc = "new"
    /\ it = None
    /\ path = None
    /\ \E start_node \in NodeSet(g.graph) :
          it' = Walker("rdfs", start_node, reversed_dfs_iterator(g, start_node))
    /\ path' = None
    /\ UNCHANGED <<tree, g, pc, split, subs, ser, serOf, rt, named, sliced, record>>

\* traversal.next(&ast_graph.graph), as the callers of every iterator write it
WalkerNext(graph, walker) ==
    LET r == IF walker.kind = "bfs" THEN BfsNext(graph, walker.w)
             ELSE DfsNext(graph, walker.w)
    IN  IF IsSome(r.item)
        THEN [walker EXCEPT !.w = r.w, !.out = Append(@, Unwrap(r.item))]
        ELSE [walker EXCEPT !.w = r.w, !.done = TRUE]

IterNext ==
    /\ pc = "new"
    /\ IsSome(it)
    /\ ~Unwrap(it).done
    /\ it' = Some(WalkerNext(g.graph, Unwrap(it)))
    /\ UNCHANGED <<tree, g, pc, split, subs, ser, serOf, rt, path, named, sliced, record>>

PathFromTo ==
    /\ pc = "new"
    /\ it = None
    /\ path = None
    /\ \E start_node \in NodeSet(g.graph), goal \in NodeSet(g.graph) :
       \E result \in path_from_to(g, start_node, goal) :
          path' = Some([start |-> start_node, goal |-> goal, result |-> result])
    /\ it' = None
    /\ UNCHANGED <<tree, g, pc, split, subs, ser, serOf, rt, named, sliced, record>>

GraphNext ==
    \/ AddNode
    \/ AddEdge
    \/ BfsIterator
    \/ DfsIterator
    \/ ReversedDfsIterator
    \/ IterNext
    \/ PathFromTo

SpecGraph == GraphInit /\ [][GraphNext]_vars

---------------------------------------------------------------------------
(* Loading a persisted record: deserialize_from, then from_serializable.   *)
(* The record is any well-formed encoding, whatever wrote it.              *)

\* the k-th vertex entry of a persisted record
RecordNode(k) ==
    GNode(IdBase + 7 * k, fortran_program_kind,
          [start_byte |-> k - 1, end_byte |-> k,
           start_point |-> [row |-> 0, column |-> k - 1],
           end_point |-> [row |-> 0, column |-> k]])

\* positions of up to one past the longest vertex list, and those plus 2^32
RecordPositions == {Usize(hi, lo) : hi \in 0..1, lo \in 0..MaxRecordNodes}

\* the records of n vertex entries
Records(n) ==
    {[nodes |-> [k \in 1..n |-> RecordNode(k)], edges |-> es] :
        es \in UNION {[1..m -> [source : RecordPositions, target : RecordPositions]] :
                         m \in 0..MaxRecordEdges}}

\* no tree is parsed here: tree holds the one that the hand-built workflow uses
RecordInit ==
    /\ tree \in HandTrees
    /\ g = New(EmptyString)
    /\ pc = "new"
    /\ split = None
    /\ subs = <<>>
    /\ ser = None
    /\ serOf = 0
    /\ rt = None
    /\ it = None
    /\ path = None
    /\ named = EmptyMap
    /\ sliced = None
    /\ \E n \in 0..MaxRecordNodes : record \in {Some(r) : r \in Records(n)}

DeserializeFrom ==
    /\ pc = "new"
    /\ IsSome(record)
    /\ ser = None
    /\ ser' = Some(deserialize_from(Unwrap(record)))
    /\ UNCHANGED <<tree, g, pc, split, subs, serOf, rt, it, path, named, sliced, record>>

RecordNext ==
    \/ DeserializeFrom
    \/ FromSerializable

SpecRecord == RecordInit /\ [][RecordNext]_vars

---------------------------------------------------------------------------
(* Vocabulary of the properties, defined without the traversal code *)

SeqRange(q) == {q[k] : k \in 1..Len(q)}

NoDuplicates(q) == \A j, k \in 1..Len(q) : q[j] = q[k] => j = k

\* the vertices reachable from a set along outgoing edges (least fixed point)
RECURSIVE ReachFrom(_, _)
ReachFrom(graph, S) ==
    LET N == S \cup {e[2] : e \in {x \in SeqRange(graph.edges) : x[1] \in S}}
    IN  IF N = S THEN S ELSE ReachFrom(graph, N)
Reachable(graph, v) == ReachFrom(graph, {v})

\* the vertices from which v is reachable
Ancestors(graph, v) == {u \in NodeSet(graph) : v \in Reachable(graph, u)}

\* the number of edges of a shortest path, or -1 when there is none
RECURSIVE DistFrom(_, _, _, _, _)
DistFrom(graph, frontier, seen, goal, d) ==
    IF goal \in frontier THEN d
    ELSE LET nxt == {e[2] : e \in {x \in SeqRange(graph.edges) : x[1] \in frontier}} \ seen
         IN  IF nxt = {} THEN -1
             ELSE DistFrom(graph, nxt, seen \cup nxt, goal, d + 1)
Dist(graph, a, b) == DistFrom(graph, {a}, {a}, b, 0)

\* how many edges of the graph lead from a to b
EdgeCount(graph, a, b) ==
    Cardinality({k \in 1..Len(graph.edges) : graph.edges[k] = <<a, b>>})

InEdges(graph, v) == {k \in 1..Len(graph.edges) : graph.edges[k][2] = v}

\* the vertices of a container whose payload carries a parser id
VerticesWithId(c, id) == {i \in NodeSet(c.graph) : Weight(c.graph, i).id = id}
VertexOf(c, id) == CHOOSE i \in NodeSet(c.graph) : Weight(c.graph, i).id = id

RECURSIVE SumNodeCounts(_)
SumNodeCounts(cs) ==
    IF cs = <<>> THEN 0 ELSE node_count(Head(cs)) + SumNodeCounts(Tail(cs))

Extracted == IsSome(split)
Matches == MatchingNodes(g, Unwrap(split))
MatchSet == SeqRange(Matches)

\* no matched vertex is an ancestor of another matched vertex
NonNested ==
    \A u, v \in MatchSet : u # v => v \notin Reachable(g.graph, u)

\* the vertices that lie in no extracted subgraph
OutsideAllMatches ==
    NodeSet(g.graph) \ UNION {Reachable(g.graph, v) : v \in MatchSet}

---------------------------------------------------------------------------
(* Properties of the tree workflow (Spec) *)

\* C1: right after build_from_tree on a new container (the operations that
\* follow leave g alone) the graph has one vertex per
\* tree node (same id, kind and range) and N - 1 edges; the root's vertex has no
\* incoming edge and every other vertex has exactly one, from its parent's vertex.
C1_BuildIsomorphicToTree ==
    (pc = "built" /\ ~Extracted /\ ser = None) =>
        /\ NodeCount(g.graph) = tree.n
        /\ node_count(g) = tree.n
        /\ Len(g.graph.edges) = tree.n - 1
        /\ \A x \in 1..tree.n :
              /\ Cardinality(VerticesWithId(g, TsId(tree, x))) = 1
              /\ Weight(g.graph, VertexOf(g, TsId(tree, x))).kind_id = tree.kind[x]
              /\ Weight(g.graph, VertexOf(g, TsId(tree, x))).range = TsRange(tree, x)
        /\ InEdges(g.graph, VertexOf(g, TsId(tree, RootNode(tree)))) = {}
        /\ \A x \in 2..tree.n :
              LET v == VertexOf(g, TsId(tree, x))
              IN  /\ Cardinality(InEdges(g.graph, v)) = 1
                  /\ \A k \in InEdges(g.graph, v) :
                        g.graph.edges[k][1] = VertexOf(g, TsId(tree, tree.parent[x]))

C1_Witness ==
    /\ pc = "built"
    /\ ~Extracted
    /\ ser = None
    /\ tree.n = MaxNodes
    /\ \E x \in 2..tree.n : tree.parent[x] # 1

\* C2 as claimed: for a non-nested kind set, the subgraphs' node counts plus the
\* number of subgraphs add up to the node count of the original graph.
C2_SumPlusCountIsTotal ==
    (Extracted /\ NonNested) =>
        SumNodeCounts(subs) + Len(subs) = node_count(g)

\* C2 as amended: for a non-nested kind set, the subgraphs' node counts plus the
\* number of vertices that lie in no subgraph add up to the node count of the
\* original graph.
C2_SumPlusOutsideIsTotal ==
    (Extracted /\ NonNested) =>
        SumNodeCounts(subs) + Cardinality(OutsideAllMatches) = node_count(g)

C2_Witness ==
    /\ Extracted
    /\ NonNested
    /\ Len(subs) >= 2
    /\ OutsideAllMatches # {}

\* the subgraph holds exactly the payloads of v and of what v reaches
BelongsTo(sub, v) ==
    /\ {n.id : n \in SeqRange(sub.graph.nodes)} =
           {Weight(g.graph, u).id : u \in Reachable(g.graph, v)}
    /\ NodeCount(sub.graph) = Cardinality(Reachable(g.graph, v))

\* C3: extract_subgraphs returns one subgraph per vertex whose kind is in the
\* kind set, the i-th subgraph being that of the i-th such vertex in index
\* order; with no such vertex it returns the empty sequence; it never fails.
C3_OneSubgraphPerMatchInOrder ==
    /\ pc # "panicked"
    /\ Extracted =>
          /\ Len(subs) =
                Cardinality({v \in NodeSet(g.graph) :
                                Weight(g.graph, v).kind_id \in Unwrap(split)})
          /\ \A i \in 1..Len(subs) : BelongsTo(subs[i], Matches[i])
          /\ \A i, j \in 1..Len(Matches) : i < j => Matches[i] < Matches[j]

C3_Witness ==
    /\ Extracted
    /\ Len(subs) >= 2
    /\ Len(subs) < NodeCount(g.graph)

\* C4: the subgraph of a matching vertex V is the induced subgraph on R, the set
\* of V and all it reaches: its vertices correspond one to one to R with equal
\* (id, kind, range), and between two of its vertices it has exactly as many
\* edges as the original has between the corresponding members of R.
C4_InducedSubgraph ==
    Extracted =>
        \A i \in 1..Len(subs) :
            LET sub == subs[i]
                R == Reachable(g.graph, Matches[i])
                f == [j \in NodeSet(sub.graph) |-> VertexOf(g, Weight(sub.graph, j).id)]
            IN  /\ NodeCount(sub.graph) = Cardinality(R)
                /\ {f[j] : j \in NodeSet(sub.graph)} = R
                /\ \A j \in NodeSet(sub.graph) :
                      Weight(sub.graph, j) = Weight(g.graph, f[j])
                /\ \A a, b \in NodeSet(sub.graph) :
                      EdgeCount(sub.graph, a, b) = EdgeCount(g.graph, f[a], f[b])
                /\ \A k \in 1..Len(sub.graph.edges) :
                      /\ sub.graph.edges[k][1] \in NodeSet(sub.graph)
                      /\ sub.graph.edges[k][2] \in NodeSet(sub.graph)

C4_Witness ==
    /\ Extracted
    /\ \E i \in 1..Len(subs) :
          /\ Matches[i] # 0
          /\ Len(subs[i].graph.edges) >= 1
          /\ Weight(subs[i].graph, 0).id # Weight(g.graph, Matches[i]).id

\* C5: from_serializable(to_serializable(c)) has the vertices of c, position by
\* position with equal (id, kind, range), and the same edges between the same
\* positions, for the built graph and for every renumbered subgraph.
C5_RoundTrip ==
    IsSome(rt) =>
        LET c == Container(serOf)
            r == Unwrap(rt)
        IN  /\ NodeCount(r.graph) = NodeCount(c.graph)
            /\ Len(r.graph.edges) = Len(c.graph.edges)
            /\ \A i \in NodeSet(c.graph) : Weight(r.graph, i) = Weight(c.graph, i)
            /\ \A a, b \in NodeSet(c.graph) :
                  EdgeCount(r.graph, a, b) = EdgeCount(c.graph, a, b)

C5_Witness ==
    /\ IsSome(rt)
    /\ serOf > 0
    /\ Len(Unwrap(rt).graph.edges) >= 1
    /\ Weight(Unwrap(rt).graph, 0).id # Weight(g.graph, Matches[serOf]).id

\* the back-reference map of a container has exactly one entry per vertex,
\* holding the id of that vertex's payload
WellMapped(c) ==
    /\ DOMAIN c.node_map = NodeSet(c.graph)
    /\ node_count(c) = NodeCount(c.graph)
    /\ \A i \in NodeSet(c.graph) : get_node(c, i) = Some(Weight(c.graph, i).id)
    /\ \A i \in NodeCount(c.graph)..(NodeCount(c.graph) + MaxNodes) :
          get_node(c, i) = None

\* C9: in the container under construction, in every extracted subgraph and in
\* every deserialized container, get_node(i) is the id of vertex i's payload for
\* each vertex i and absent for every other index, and node_count() is the
\* number of vertices.
C9_BackReferenceMap ==
    /\ WellMapped(g)
    /\ \A i \in 1..Len(subs) : WellMapped(subs[i])
    /\ IsSome(rt) => WellMapped(Unwrap(rt))

C9_Witness ==
    /\ IsSome(rt)
    /\ serOf > 0
    /\ NodeCount(Unwrap(rt).graph) >= 2
    /\ NodeCount(Unwrap(rt).graph) < NodeCount(g.graph)

\* C10: the source of the subgraph of matching vertex V is the parent's text
\* from V's start_byte up to, not including, V's end_byte, and the parent's
\* source is still the text it was created with.
C10_SubgraphSourceIsSlice ==
    Extracted =>
        /\ g.source = SourceText(tree)
        /\ \A i \in 1..Len(subs) :
              LET r == Weight(g.graph, Matches[i]).range
              IN  /\ Len(subs[i].source) = r.end_byte - r.start_byte
                  /\ \A b \in 1..Len(subs[i].source) :
                        subs[i].source[b] = g.source[r.start_byte + b]

C10_Witness ==
    /\ Extracted
    /\ \E i \in 1..Len(subs) :
          LET r == Weight(g.graph, Matches[i]).range
          IN  /\ r.start_byte > 0
              /\ r.end_byte < Len(g.source)
              /\ Len(subs[i].source) >= 1

RECURSIVE SumSourceLens(_)
SumSourceLens(cs) ==
    IF cs = <<>> THEN 0 ELSE Len(Head(cs).source) + SumSourceLens(Tail(cs))

\* the bytes of the parent's text (1-based) outside every matched vertex's range
UncoveredBytes ==
    {b \in 1..Len(g.source) :
        \A v \in MatchSet :
            LET r == Weight(g.graph, v).range
            IN  ~(r.start_byte < b /\ b <= r.end_byte)}

\* C11 as claimed: after extract_subgraphs on any set of boundary kinds, the
\* lengths of the subgraphs' source excerpts add up to strictly less than the
\* length of the parent's source text.
C11_ExcerptsShorterThanSource ==
    Extracted => SumSourceLens(subs) < Len(g.source)

\* C11 as amended: when no matched vertex is an ancestor of another and some
\* byte of the parent's text lies outside every matched vertex's range, the
\* excerpt lengths add up to strictly less than the length of the parent's
\* text: to the length less the number of such bytes.
C11_ExcerptsShorterWhenTextOutside ==
    (Extracted /\ NonNested /\ UncoveredBytes # {}) =>
        /\ SumSourceLens(subs) < Len(g.source)
        /\ SumSourceLens(subs) = Len(g.source) - Cardinality(UncoveredBytes)

C11_Witness ==
    /\ Extracted
    /\ NonNested
    /\ UncoveredBytes # {}
    /\ Len(subs) >= 2
    /\ SumSourceLens(subs) >= 2

\* the parser ids of a container's vertices, and its edges as pairs of ids
IdsOf(c) == {n.id : n \in SeqRange(c.graph.nodes)}
EdgeIdsOf(c) ==
    {<<Weight(c.graph, e[1]).id, Weight(c.graph, e[2]).id>> : e \in SeqRange(c.graph.edges)}

\* the container's indices are 0 .. count - 1 and its map and edges use no other
OwnIndexSpace(c) ==
    /\ DOMAIN c.node_map = 0..(NodeCount(c.graph) - 1)
    /\ \A e \in SeqRange(c.graph.edges) :
          e[1] \in NodeSet(c.graph) /\ e[2] \in NodeSet(c.graph)

\* C12: when a matching vertex W is a descendant of another matching vertex V,
\* W has a subgraph of its own (that of W and all W reaches), every vertex
\* (with its payload) and every edge of it, compared by parser id, is also in
\* V's subgraph, and each of the two numbers its vertices from 0 on its own.
C12_NestedMatchIncluded ==
    Extracted =>
        \A i, j \in 1..Len(Matches) :
            (i # j /\ Matches[j] \in Reachable(g.graph, Matches[i])) =>
                /\ Len(subs) = Len(Matches)
                /\ BelongsTo(subs[j], Matches[j])
                /\ IdsOf(subs[j]) \subseteq IdsOf(subs[i])
                /\ SeqRange(subs[j].graph.nodes) \subseteq SeqRange(subs[i].graph.nodes)
                /\ EdgeIdsOf(subs[j]) \subseteq EdgeIdsOf(subs[i])
                /\ Cardinality(EdgeIdsOf(subs[j])) = Len(subs[j].graph.edges)
                /\ OwnIndexSpace(subs[i])
                /\ OwnIndexSpace(subs[j])

C12_Witness ==
    /\ Extracted
    /\ \E i, j \in 1..Len(Matches) :
          /\ i # j
          /\ Matches[j] \in Reachable(g.graph, Matches[i])
          /\ Len(subs[j].graph.edges) >= 1
          /\ VertexOf(subs[i], Weight(g.graph, Matches[j]).id) #
                VertexOf(subs[j], Weight(g.graph, Matches[j]).id)

---------------------------------------------------------------------------
(* Properties of the calls that can panic (SpecCalls) *)

\* the number a string of decimal digits denotes
RECURSIVE DecimalValue(_)
DecimalValue(ds) ==
    IF ds = <<>> THEN 0
    ELSE 10 * DecimalValue(SubSeq(ds, 1, Len(ds) - 1)) +
         (CHOOSE d \in 0..9 : DigitChars[d + 1] = ds[Len(ds)])

\* str is "node_<id>_graph" with <id> in decimal
IsNameOf(str, id) ==
    /\ Len(str) >= 12
    /\ SubSeq(str, 1, 5) = <<"n", "o", "d", "e", "_">>
    /\ SubSeq(str, Len(str) - 5, Len(str)) = <<"_", "g", "r", "a", "p", "h">>
    /\ LET ds == SubSeq(str, 6, Len(str) - 6)
       IN  /\ \A k \in 1..Len(ds) : ds[k] \in SeqRange(DigitChars)
           /\ (Len(ds) > 1 => ds[1] # "0")
           /\ DecimalValue(ds) = id

\* C13: name() on a container fails exactly when the container has fewer than
\* two vertices, and otherwise returns "node_<id>_graph" for the id that the
\* back-reference map holds for index 1, the id of the second vertex inserted;
\* so it succeeds on every extracted subgraph of two or more vertices.
C13_NameOfSecondVertex ==
    \A k \in DOMAIN named :
        LET c == Container(k)
        IN  /\ named[k] = None <=> NodeCount(c.graph) < 2
            /\ IsSome(named[k]) =>
                  /\ get_node(c, 1) = Some(Weight(c.graph, 1).id)
                  /\ IsNameOf(Unwrap(named[k]), Weight(c.graph, 1).id)

C13_Witness ==
    /\ \E k \in DOMAIN named : k >= 1 /\ IsSome(named[k])
    /\ \E k \in DOMAIN named : k >= 1 /\ named[k] = None

\* C14 as claimed: the parser ids being pairwise distinct, the names that
\* name() returned for the original graph and for the subgraphs of one
\* extract_subgraphs call are pairwise different, whatever order the
\* extraction numbered the subgraphs' vertices in.
C14_NamesUnique ==
    (\A u, v \in NodeSet(g.graph) :
        u # v => Weight(g.graph, u).id # Weight(g.graph, v).id) =>
    \A j, k \in DOMAIN named :
        (j # k /\ IsSome(named[j]) /\ IsSome(named[k])) => named[j] # named[k]

\* C15 as claimed: get_node_source(i) on an extracted subgraph, for a vertex i
\* of the subgraph, finds the vertex's byte range within the subgraph's own
\* source and returns the text that get_node_source returns for the
\* corresponding vertex of the parent graph.
C15_SubgraphSelfContained ==
    (IsSome(sliced) /\ Unwrap(sliced).of >= 1
        /\ Unwrap(sliced).id \in NodeSet(subs[Unwrap(sliced).of].graph)) =>
        LET sub == subs[Unwrap(sliced).of]
            i == Unwrap(sliced).id
            r == Weight(sub.graph, i).range
        IN  /\ r.start_byte <= r.end_byte
            /\ r.end_byte <= Len(sub.source)
            /\ Unwrap(sliced).result =
                  get_node_source(g, VertexOf(g, Weight(sub.graph, i).id))

---------------------------------------------------------------------------
(* Properties of loading a persisted record (SpecRecord) *)

\* the position is not an index into the record's vertex list
InvalidPosition(rec, p) == ~(p.hi = 0 /\ p.lo < Len(rec.nodes))

HasInvalidPosition(rec) ==
    \E k \in 1..Len(rec.edges) :
        InvalidPosition(rec, rec.edges[k].source) \/ InvalidPosition(rec, rec.edges[k].target)

\* the record has been decoded and from_serializable has returned or panicked
Loaded == IsSome(record) /\ IsSome(ser) /\ (IsSome(rt) \/ pc = "panicked")

\* C16 as claimed: for a flat record with an edge position that is not a valid
\* index into its vertex list, from_serializable fails and returns no container;
\* for a record whose edge positions are all valid it returns a container whose
\* vertex i is the i-th list entry.
C16_FailsOnInvalidPositions ==
    Loaded =>
        LET rec == Unwrap(record)
        IN  /\ HasInvalidPosition(rec) => (rt = None /\ pc = "panicked")
            /\ ~HasInvalidPosition(rec) =>
                  /\ IsSome(rt)
                  /\ NodeCount(Unwrap(rt).graph) = Len(rec.nodes)
                  /\ \A i \in NodeSet(Unwrap(rt).graph) :
                        Weight(Unwrap(rt).graph, i) = rec.nodes[i + 1]

---------------------------------------------------------------------------
(* Properties of the hand-built workflow (SpecGraph) *)

\* C6: a bfs or dfs walker advanced with the graph yields only vertices
\* reachable from its start, none of them twice, and once it has returned none
\* it has yielded all of them; so both kinds visit the same set.
C6_WalkersVisitReachableOnce ==
    (IsSome(it) /\ Unwrap(it).kind \in {"bfs", "dfs"}) =>
        LET walker == Unwrap(it)
            R == Reachable(g.graph, walker.start)
        IN  /\ NoDuplicates(walker.out)
            /\ SeqRange(walker.out) \subseteq R
            /\ walker.done => SeqRange(walker.out) = R
            /\ (walker.w.stack = <<>> /\ ~walker.done) => SeqRange(walker.out) = R

C6_Witness ==
    /\ IsSome(it)
    /\ Unwrap(it).kind = "dfs"
    /\ Unwrap(it).done
    /\ Len(Unwrap(it).out) = MaxGraphNodes
    /\ InEdges(g.graph, Unwrap(it).start) # {}

IsPath(graph, p) ==
    \A k \in 1..(Len(p) - 1) : EdgeCount(graph, p[k], p[k + 1]) >= 1

\* C7: path_from_to returns none exactly when the goal is not reachable from
\* the start; otherwise a path from start to goal along edges of the graph with
\* the least possible number of edges (the one-vertex path when start = goal).
C7_ShortestPath ==
    IsSome(path) =>
        LET q == Unwrap(path)
        IN  /\ q.result = None <=> q.goal \notin Reachable(g.graph, q.start)
            /\ IsSome(q.result) =>
                  LET p == Unwrap(q.result)
                  IN  /\ Len(p) >= 1
                      /\ p[1] = q.start
                      /\ p[Len(p)] = q.goal
                      /\ IsPath(g.graph, p)
                      /\ Len(p) - 1 = Dist(g.graph, q.start, q.goal)

C7_Witness ==
    /\ IsSome(path)
    /\ IsSome(Unwrap(path).result)
    /\ Len(Unwrap(Unwrap(path).result)) = 2
    /\ \E m \in NodeSet(g.graph) :
          /\ m \notin {Unwrap(path).start, Unwrap(path).goal}
          /\ EdgeCount(g.graph, Unwrap(path).start, m) >= 1
          /\ EdgeCount(g.graph, m, Unwrap(path).goal) >= 1

\* C8 as claimed: the walker of reversed_dfs_iterator, advanced to exhaustion
\* like that of dfs_iterator, has yielded its start and exactly the vertices
\* from which the start is reachable.
C8_ReversedDfsYieldsAncestors ==
    (IsSome(it) /\ Unwrap(it).kind = "rdfs" /\ Unwrap(it).done) =>
        SeqRange(Unwrap(it).out) = Ancestors(g.graph, Unwrap(it).start)

====
